---- MODULE Spec2Model ----
(***************************************************************************)
(* Waveform viewer (src/main.cpp): the transport controller (play, stop,   *)
(* pause, the key and mouse handlers of WaveformView::handle), the cursor  *)
(* timer update_cursor_timer and the miniaudio fill callback               *)
(* audio_data_callback.                                                    *)
(*                                                                         *)
(* The UI thread is FLTK's single-threaded event loop: each handler runs   *)
(* to completion, so each handler is one action.  The fill callback runs   *)
(* on the audio thread; it is split at each access to a variable the UI    *)
(* thread also touches (playbackSampleIndex, eof), so that UI handlers     *)
(* interleave with it.  ma_device_stop returns only after the callback in  *)
(* flight has returned: a handler that stops a running device is enabled   *)
(* only when the callback is idle.  Audio::eof is a plain bool that both    *)
(* threads read and write; each of its accesses is one interleaved step.   *)
(*                                                                         *)
(* zoomLevel is a float in the source; here it is a positive rational      *)
(* <<numerator, denominator>> in lowest terms.  The rounding of the float  *)
(* product in the wheel handler is modelled at a coarser resolution: the   *)
(* product is rounded to the nearest multiple of zoomMin / ZoomRes.        *)
(*                                                                         *)
(* Spec is the whole program on one loaded file.  SpecView is the view     *)
(* alone (wheel, scrollbar, Home, End) on files and widget widths drawn    *)
(* from sets, with the transport stopped.  The other specifications start  *)
(* from states of the program drawn from sets and run the handlers one     *)
(* property is about: SpecPlay (ticks and auto-scroll), SpecLoad           *)
(* (setStereoSamples), SpecSeek (clicks), SpecReset (resetCursor),         *)
(* SpecEmpty (a file with no frames), SpecDraw (the envelope of draw) and  *)
(* SpecQuiet (playback left to itself, with fairness).                     *)
(***************************************************************************)
EXTENDS Integers, Sequences, FiniteSets, TLC

\* ---- bounds ----
\* number of frames of the loaded file (leftSamples.size())
totalSamples == 4
\* width of the waveform widget in pixels, w()
viewW == 32
\* largest frameCount the device asks the callback for
MaxFrames == 2
\* largest number of pending update_cursor_timer timeouts explored
MaxTimers == 2
\* the wheel is explored while the denominator of zoomLevel stays within
\* MaxZoomDen times the denominator of zoomFit
MaxZoomDen == 10
\* distance in pixels between the mouse positions explored
mouseStride == 4
\* zoomLevel is rounded to multiples of zoomMin / ZoomRes after a wheel step
ZoomRes == 10
\* SpecView: the files loaded have 1..MaxViewSamples frames
MaxViewSamples == 5
\* SpecView: the width of a widget much wider than the file is long
WideW == 1000

\* SpecPlay: frames of the file played and width of the widget
PlaySamples == 8
PlayW == 36
\* SpecPlay: zoom levels are the multiples of 1 / PlayZoomDen up to zoomMax
PlayZoomDen == 2

\* SpecLoad: widths of the widget and lengths of the file loaded into it
MaxLoadW == 12
MaxLoadSamples == 36

\* SpecSeek: frames of the file clicked on and width of the widget
MaxSeekSamples == 8
SeekW == 36

\* SpecReset: frames of the file, width of the widget, and zoom levels that
\* are the multiples of 1 / ResetZoomDen up to zoomMax
ResetSamples == 24
ResetW == 40
ResetZoomDen == 2

\* SpecDraw: frames of the file drawn, width of the widget, and the largest
\* whole number of samples per pixel drawn
DrawSamples == 7
DrawW == 2
DrawMaxSpp == 7

\* ---- program constants ----
\* pixels from right edge (update_cursor_timer)
margin == 30
\* float zoomMax = 10.0f
zoomMaxDefault == 10

Max(a, b) == IF a >= b THEN a ELSE b
Min(a, b) == IF a <= b THEN a ELSE b
\* std::clamp(v, lo, hi)
Clamp(v, lo, hi) == IF v < lo THEN lo ELSE IF hi < v THEN hi ELSE v

RECURSIVE GCD(_, _)
GCD(a, b) == IF b = 0 THEN a ELSE GCD(b, a % b)

\* a positive rational in lowest terms
Rat(n, d) == LET g == GCD(n, d) IN <<n \div g, d \div g>>
RLe(a, b) == a[1] * b[2] <= b[1] * a[2]
RMul(a, b) == Rat(a[1] * b[1], a[2] * b[2])
RClamp(v, lo, hi) == IF ~RLe(lo, v) THEN lo ELSE IF ~RLe(v, hi) THEN hi ELSE v

\* static_cast<int>(n / d): truncation toward zero, d > 0
IntCast(n, d) == IF n >= 0 THEN n \div d ELSE -((-n) \div d)
\* static_cast<int>(std::ceil(n / d)), n >= 0, d > 0
CeilCast(n, d) == (n + d - 1) \div d

\* the float product a * b, rounded to the nearest multiple of unit
RMulRounded(a, b, unit) ==
    LET p == RMul(a, b)
        k == (2 * p[1] * unit[2] + unit[1] * p[2]) \div (2 * unit[1] * p[2])
    IN Rat(k * unit[1], unit[2])

\* ---- WaveformView::setStereoSamples(left, right) with n = left.size() in a
\* widget of width w: the fields it leaves, zoomLevel = zoomFit and
\* scrollOffset = 0 apart ----
\* setStereoSamples() that keeps the initial zoom of one pixel per sample
setStereoSamples_unitZoom(n, w) ==
    [totalSamples |-> n, viewW |-> w, samples |-> [i \in 1..n |-> 0],
     zoomFit |-> <<1, 1>>, zoomMin |-> <<1, 100>>,
     zoomMax |-> <<zoomMaxDefault, 1>>]

setStereoSamples(n, w) ==
    IF n > 0
    THEN LET fit == Rat(w, n)
             min == Rat(w, 100 * n)
         IN [totalSamples |-> n, viewW |-> w, samples |-> [i \in 1..n |-> 0],
             zoomFit |-> fit, zoomMin |-> min,
             zoomMax |-> IF RLe(<<zoomMaxDefault, 1>>, min)
                         THEN RMul(min, <<100, 1>>)
                         ELSE <<zoomMaxDefault, 1>>]
    ELSE [totalSamples |-> n, viewW |-> w, samples |-> <<>>,
          zoomFit |-> <<1, 1>>,
          zoomMin |-> <<1, 1>>, zoomMax |-> <<zoomMaxDefault, 1>>]

\* the zoom fields of the file of Spec
zoomFit == setStereoSamples(totalSamples, viewW).zoomFit
zoomMin == setStereoSamples(totalSamples, viewW).zoomMin
zoomMax == setStereoSamples(totalSamples, viewW).zoomMax

\* amplitudes are held in thousandths of full scale
\* 1.0f, the full scale the envelope is clamped to
fullScale == 1000
\* 0.005f, the noise threshold of a silent column
noiseThreshold == 5
\* 0.01f, the span below which a column is padded
flatSpan == 10
\* 0.005f, the padding put on each side of a flat column
flatPad == 5
\* 5.0f, samples per pixel above which the envelope is drawn
envelopeSpp == 5

VARIABLES
    loaded,               \* what setStereoSamples left: leftSamples.size(),
                          \* w(), zoomFit, zoomMin, zoomMax
    playing,              \* WaveformView::playing
    paused,               \* WaveformView::paused
    playbackSample,       \* WaveformView::playbackSample
    movedCursorSample,    \* WaveformView::movedCursorSample
    scrollOffset,         \* WaveformView::scrollOffset
    zoomLevel,            \* WaveformView::zoomLevel
    playbackSampleIndex,  \* Audio::playbackSampleIndex (std::atomic<int>)
    eof,                  \* Audio::eof (plain bool)
    devRunning,           \* the ma_device is started
    timers,               \* pending update_cursor_timer timeouts
    cbpc,                 \* position of the audio thread in the callback
    cbFramesToCopy,       \* callback local framesToCopy
    cbRemaining,          \* callback local remaining (0 once it is dead)
    cbI,                  \* callback loop counter i
    cbIdx,                \* callback local idx of the last sample read
    lastOp,               \* history: the last user operation; for play(),
                          \* also whether a click or a stop() preceded it
    lastPre,              \* history: <<playing, paused, eof>> before lastOp
    drawn                 \* the vertices draw() emitted last, <<>> before any

uiVars == <<loaded, playing, paused, playbackSample, movedCursorSample, scrollOffset,
            zoomLevel, playbackSampleIndex, eof, devRunning, timers>>
cbVars == <<cbpc, cbFramesToCopy, cbRemaining, cbI, cbIdx>>
histVars == <<lastOp, lastPre>>
drawVars == <<drawn>>
vars == <<uiVars, cbVars, histVars, drawVars>>

\* The state the UI handlers work on, as one record.
Cur ==
    [ld |-> loaded,
     playing |-> playing, paused |-> paused, playbackSample |-> playbackSample,
     movedCursorSample |-> movedCursorSample, scrollOffset |-> scrollOffset,
     zoomLevel |-> zoomLevel, playbackSampleIndex |-> playbackSampleIndex,
     eof |-> eof, devRunning |-> devRunning, timers |-> timers]

Apply(s) ==
    /\ loaded' = s.ld
    /\ playing' = s.playing
    /\ paused' = s.paused
    /\ playbackSample' = s.playbackSample
    /\ movedCursorSample' = s.movedCursorSample
    /\ scrollOffset' = s.scrollOffset
    /\ zoomLevel' = s.zoomLevel
    /\ playbackSampleIndex' = s.playbackSampleIndex
    /\ eof' = s.eof
    /\ devRunning' = s.devRunning
    /\ timers' = s.timers

\* ---- WaveformView ----
\* updateScrollbar() without the clamp of scrollOffset
updateScrollbar_unclamped(s) == s

updateScrollbar(s) ==
    IF s.ld.totalSamples = 0 THEN s
    ELSE LET visibleSamples ==
                 IntCast(s.ld.viewW * s.zoomLevel[2], s.zoomLevel[1])
             maxOffset == Max(0, s.ld.totalSamples - visibleSamples)
         IN [s EXCEPT !.scrollOffset = Clamp(s.scrollOffset, 0, maxOffset)]

setScrollOffset(s, offset) ==
    updateScrollbar([s EXCEPT !.scrollOffset = Max(0, offset)])

setPlaybackSample(s, sample) == [s EXCEPT !.playbackSample = sample]

\* visibleSamplesCount() rounding down instead of up
visibleSamplesCount_floor(s) ==
    Min(s.ld.totalSamples,
        Max(1, IntCast(s.ld.viewW * s.zoomLevel[2], s.zoomLevel[1])))

visibleSamplesCount(s) ==
    Min(s.ld.totalSamples,
        Max(1, CeilCast(s.ld.viewW * s.zoomLevel[2], s.zoomLevel[1])))

\* ---- draw(): the envelope branch of drawChannel ----
SetMin(S) == CHOOSE m \in S : \A y \in S : m <= y
SetMax(S) == CHOOSE m \in S : \A y \in S : y <= m
Abs(v) == IF v < 0 THEN -v ELSE v

\* samplesPerPixel > 5.0f
envelopeMode(s) == s.zoomLevel[2] > envelopeSpp * s.zoomLevel[1]

\* the samples of pixel column x: indices startSample .. endSample - 1
columnSamples(s, x) ==
    LET startSample == s.scrollOffset
                         + IntCast(x * s.zoomLevel[2], s.zoomLevel[1])
        endSample == Min(s.scrollOffset
                           + IntCast((x + 1) * s.zoomLevel[2], s.zoomLevel[1]),
                         Len(s.ld.samples))
    IN {s.ld.samples[i + 1] : i \in startSample..(endSample - 1)}

\* the indices i of channel[i] in the two loops over pixel column x
columnIndices(s, x) ==
    LET startSample == s.scrollOffset
                         + IntCast(x * s.zoomLevel[2], s.zoomLevel[1])
        endSample == Min(s.scrollOffset
                           + IntCast((x + 1) * s.zoomLevel[2], s.zoomLevel[1]),
                         Len(s.ld.samples))
    IN startSample..(endSample - 1)

\* the line strip running over the whole visible range, end of data or not
sampleModeIndices_uncapped(s) ==
    LET visibleSamples ==
            CeilCast(s.ld.viewW * s.zoomLevel[2], s.zoomLevel[1]) + 1
        endSample == s.scrollOffset + visibleSamples
    IN s.scrollOffset..(endSample - 1)

\* the indices i of channel[i] in the line strip and in the nodes of the
\* sample-mode branch
sampleModeIndices(s) ==
    LET visibleSamples ==
            CeilCast(s.ld.viewW * s.zoomLevel[2], s.zoomLevel[1]) + 1
        endSample == Min(s.scrollOffset + visibleSamples, Len(s.ld.samples))
    IN s.scrollOffset..(endSample - 1)

\* every index at which one draw() reads a channel
drawIndices(s) ==
    IF Len(s.ld.samples) = 0 THEN {}
    ELSE IF envelopeMode(s)
         THEN UNION {columnIndices(s, x) : x \in 0..(s.ld.viewW - 1)}
         ELSE sampleModeIndices(s)

\* the envelope of a column emitted without the clamp to full scale
envelopeColumn_unclamped(s, x) ==
    LET col == columnSamples(s, x)
        minY == SetMin(col \cup {fullScale})
        maxY == SetMax(col \cup {-fullScale})
        isSilent == \A a \in col : ~(Abs(a) > noiseThreshold)
        pad == Abs(maxY - minY) < flatSpan
    IN IF isSilent
       THEN [x |-> x, flat |-> TRUE, lo |-> 0, hi |-> 0]
       ELSE [x |-> x, flat |-> FALSE,
             lo |-> IF pad THEN minY - flatPad ELSE minY,
             hi |-> IF pad THEN maxY + flatPad ELSE maxY]

\* one pass of the column loop: the flat mid-line, or the pair of
\* amplitudes whose pixel rows are emitted
envelopeColumn(s, x) ==
    LET col == columnSamples(s, x)
        minY == SetMin(col \cup {fullScale})
        maxY == SetMax(col \cup {-fullScale})
        isSilent == \A a \in col : ~(Abs(a) > noiseThreshold)
        pad == Abs(maxY - minY) < flatSpan
    IN IF isSilent
       THEN [x |-> x, flat |-> TRUE, lo |-> 0, hi |-> 0]
       ELSE [x |-> x, flat |-> FALSE,
             lo |-> Clamp(IF pad THEN minY - flatPad ELSE minY,
                          -fullScale, fullScale),
             hi |-> Clamp(IF pad THEN maxY + flatPad ELSE maxY,
                          -fullScale, fullScale)]

\* ---- transport ----
\* resetCursor() that also moves the displayed cursor
resetCursor_movesCursor(s) ==
    LET resetTo == s.movedCursorSample
        s1 == [s EXCEPT !.playbackSampleIndex = resetTo,
                        !.playbackSample = resetTo]
        visibleSamples == IntCast(s.ld.viewW * s.zoomLevel[2], s.zoomLevel[1])
        marginSamples == visibleSamples \div 10
        newScrollOffset == Max(0, resetTo - marginSamples)
    IN setScrollOffset(s1, newScrollOffset)

\* resetCursor() that leaves the view where it is
resetCursor_keepsScroll(s) ==
    [s EXCEPT !.playbackSampleIndex = s.movedCursorSample]

resetCursor(s) ==
    LET resetTo == s.movedCursorSample
        s1 == [s EXCEPT !.playbackSampleIndex = resetTo]
        visibleSamples == IntCast(s.ld.viewW * s.zoomLevel[2], s.zoomLevel[1])
        marginSamples == visibleSamples \div 10
        newScrollOffset == Max(0, resetTo - marginSamples)
    IN setScrollOffset(s1, newScrollOffset)

\* play() restarting from sample 0 when the end-of-stream flag is set
play_restartAtZero(s) ==
    LET s1 == IF s.playing /\ s.eof THEN [s EXCEPT !.playing = FALSE] ELSE s
    IN IF ~s1.playing
       THEN LET s2 == [s1 EXCEPT !.playing = TRUE]
                s3 == IF s2.paused \/ s2.eof
                      THEN [s2 EXCEPT !.playbackSampleIndex = 0, !.eof = FALSE]
                      ELSE setPlaybackSample(s2, 0)
            IN [s3 EXCEPT !.devRunning = TRUE, !.timers = @ + 1]
       ELSE resetCursor(s1)

\* play() doing nothing when already playing
play_ignoredWhilePlaying(s) ==
    LET s1 == IF s.playing /\ s.eof THEN [s EXCEPT !.playing = FALSE] ELSE s
    IN IF ~s1.playing
       THEN LET s2 == [s1 EXCEPT !.playing = TRUE]
                s3 == IF s2.paused \/ s2.eof
                      THEN [resetCursor(s2) EXCEPT !.eof = FALSE]
                      ELSE setPlaybackSample(s2, 0)
            IN [s3 EXCEPT !.devRunning = TRUE, !.timers = @ + 1]
       ELSE s1

play(s) ==
    LET s1 == IF s.playing /\ s.eof THEN [s EXCEPT !.playing = FALSE] ELSE s
    IN IF ~s1.playing
       THEN LET s2 == [s1 EXCEPT !.playing = TRUE]
                s3 == IF s2.paused \/ s2.eof
                      THEN [resetCursor(s2) EXCEPT !.eof = FALSE]
                      ELSE setPlaybackSample(s2, 0)
            IN [s3 EXCEPT !.devRunning = TRUE, !.timers = @ + 1]
       ELSE resetCursor(s1)

\* stop() that leaves the audio stream running
stop_keepsStreaming(s) ==
    LET s1 == IF s.playing THEN [s EXCEPT !.playing = FALSE] ELSE s
    IN resetCursor([s1 EXCEPT !.paused = FALSE])

\* stop() leaving the register where playback was
stop_withoutReset(s) ==
    LET s1 == IF s.playing
              THEN [s EXCEPT !.playing = FALSE, !.devRunning = FALSE]
              ELSE s
    IN [s1 EXCEPT !.paused = FALSE]

stop(s) ==
    LET s1 == IF s.playing
              THEN [s EXCEPT !.playing = FALSE, !.devRunning = FALSE]
              ELSE s
    IN resetCursor([s1 EXCEPT !.paused = FALSE])

\* pause() rewinding the register to the displayed sample when it pauses
pause_rewinds(s) ==
    IF s.playing
    THEN [s EXCEPT !.playing = FALSE, !.paused = TRUE, !.devRunning = FALSE,
                   !.playbackSampleIndex = s.playbackSample]
    ELSE IF s.paused /\ ~s.playing
         THEN [s EXCEPT !.playbackSampleIndex = s.playbackSample,
                        !.playing = TRUE, !.paused = FALSE,
                        !.devRunning = TRUE, !.timers = @ + 1]
         ELSE s

\* pause() resuming from the anchor instead of the displayed sample
pause_resumesAtAnchor(s) ==
    IF s.playing
    THEN [s EXCEPT !.playing = FALSE, !.paused = TRUE, !.devRunning = FALSE]
    ELSE IF s.paused /\ ~s.playing
         THEN [s EXCEPT !.playbackSampleIndex = s.movedCursorSample,
                        !.playing = TRUE, !.paused = FALSE,
                        !.devRunning = TRUE, !.timers = @ + 1]
         ELSE s

pause(s) ==
    IF s.playing
    THEN [s EXCEPT !.playing = FALSE, !.paused = TRUE, !.devRunning = FALSE]
    ELSE IF s.paused /\ ~s.playing
         THEN [s EXCEPT !.playbackSampleIndex = s.playbackSample,
                        !.playing = TRUE, !.paused = FALSE,
                        !.devRunning = TRUE, !.timers = @ + 1]
         ELSE s

\* case FL_KEYDOWN, key == ' '
spaceKey(s) ==
    LET s1 == IF s.paused \/ s.eof THEN [stop(s) EXCEPT !.eof = FALSE] ELSE s
    IN IF s1.playing THEN stop(s1) ELSE play(s1)

\* Home moving the anchor without resetCursor
homeKey_anchorOnly(s) ==
    IF ~s.playing THEN [s EXCEPT !.movedCursorSample = 0] ELSE s

\* case FL_KEYDOWN, key == FL_Home
homeKey(s) ==
    IF ~s.playing THEN resetCursor([s EXCEPT !.movedCursorSample = 0]) ELSE s

\* case FL_KEYDOWN, key == FL_End
endKey(s) ==
    IF ~s.playing
    THEN resetCursor([s EXCEPT !.movedCursorSample = s.ld.totalSamples - 1])
    ELSE s

\* the sample under pixel mouseX without the clamp to the sample range
seekSample_unclamped(s, mouseX) ==
    s.scrollOffset + IntCast(mouseX * s.zoomLevel[2], s.zoomLevel[1])

\* case FL_PUSH: the sample under pixel mouseX
seekSample(s, mouseX) ==
    Clamp(s.scrollOffset + IntCast(mouseX * s.zoomLevel[2], s.zoomLevel[1]),
          0, s.ld.totalSamples - 1)

\* a click that does not tell the audio side to seek
push_withoutSeekCallback(s, mouseX) ==
    LET sample == seekSample(s, mouseX)
    IN [setPlaybackSample(s, sample) EXCEPT !.movedCursorSample = sample]

\* case FL_PUSH with the left button, and the onSeekCallback lambda of main
push(s, mouseX) ==
    LET sample == seekSample(s, mouseX)
    IN [setPlaybackSample(s, sample) EXCEPT
            !.movedCursorSample = sample, !.playbackSampleIndex = sample]

\* the wheel handler without the clamp of zoomLevel
mouseWheel_unclamped(s, zoomIn) ==
    LET z1 == RMulRounded(s.zoomLevel,
                          IF zoomIn THEN <<11, 10>> ELSE <<9, 10>>,
                          RMul(s.ld.zoomMin, <<1, ZoomRes>>))
        s1 == [s EXCEPT !.zoomLevel = z1]
        maxOffset == Max(0, s.ld.totalSamples - visibleSamplesCount(s1))
    IN updateScrollbar([s1 EXCEPT !.scrollOffset = Clamp(@, 0, maxOffset)])

\* case FL_MOUSEWHEEL; zoomIn is Fl::event_dy() < 0
mouseWheel(s, zoomIn) ==
    LET z1 == RMulRounded(s.zoomLevel,
                          IF zoomIn THEN <<11, 10>> ELSE <<9, 10>>,
                          RMul(s.ld.zoomMin, <<1, ZoomRes>>))
        s1 == [s EXCEPT !.zoomLevel = RClamp(z1, s.ld.zoomMin, s.ld.zoomMax)]
        maxOffset == Max(0, s.ld.totalSamples - visibleSamplesCount(s1))
    IN updateScrollbar([s1 EXCEPT !.scrollOffset = Clamp(@, 0, maxOffset)])

\* the value range of the Fl_Scrollbar set by updateScrollbar
scrollbarMaximum(s) ==
    Max(0, s.ld.totalSamples
           - IntCast(s.ld.viewW * s.zoomLevel[2], s.zoomLevel[1]))

\* ---- update_cursor_timer ----
\* a tick that goes on at the end of the data
timerReschedules_ignoresEnd(s, sample) == s.playing

timerReschedules(s, sample) == sample < s.ld.totalSamples /\ s.playing

\* a tick that never scrolls the view
update_cursor_timer_noAutoScroll(s) ==
    LET sample == s.playbackSampleIndex
        s1 == setPlaybackSample(s, sample)
    IN IF timerReschedules(s1, sample)
       THEN s1
       ELSE [s1 EXCEPT !.timers = @ - 1]

\* a tick that ends playback when it sees the end of the data
update_cursor_timer_stopsAtEnd(s) ==
    LET sample == s.playbackSampleIndex
        s1 == setPlaybackSample(s, sample)
        cursorX == IntCast((sample - s1.scrollOffset) * s1.zoomLevel[1],
                           s1.zoomLevel[2])
        s2 == IF cursorX > s.ld.viewW - margin
              THEN setScrollOffset(s1,
                     sample - IntCast((s.ld.viewW - margin) * s1.zoomLevel[2],
                                      s1.zoomLevel[1]))
              ELSE s1
    IN IF timerReschedules(s2, sample)
       THEN s2
       ELSE [s2 EXCEPT !.timers = @ - 1,
                       !.playing = (@ /\ sample < s.ld.totalSamples)]

update_cursor_timer(s) ==
    LET sample == s.playbackSampleIndex
        s1 == setPlaybackSample(s, sample)
        cursorX == IntCast((sample - s1.scrollOffset) * s1.zoomLevel[1],
                           s1.zoomLevel[2])
        s2 == IF cursorX > s.ld.viewW - margin
              THEN setScrollOffset(s1,
                     sample - IntCast((s.ld.viewW - margin) * s1.zoomLevel[2],
                                      s1.zoomLevel[1]))
              ELSE s1
    IN IF timerReschedules(s2, sample)
       THEN s2
       ELSE [s2 EXCEPT !.timers = @ - 1]

\* ---- state after main() has built the window ----
Init ==
    /\ loaded = setStereoSamples(totalSamples, viewW)
    /\ playing = FALSE
    /\ paused = FALSE
    /\ playbackSample = -1
    /\ movedCursorSample = 0
    /\ scrollOffset = 0
    /\ zoomLevel = zoomFit
    /\ playbackSampleIndex = 0
    /\ eof = FALSE
    /\ devRunning = FALSE
    /\ timers = 0
    /\ cbpc = "idle"
    /\ cbFramesToCopy = 0
    /\ cbRemaining = 0
    /\ cbI = 0
    /\ cbIdx = 0
    /\ lastOp = "none"
    /\ lastPre = <<FALSE, FALSE, FALSE>>
    /\ drawn = <<>>

\* ma_device_stop waits for the callback in flight
StopsQuiescent == devRunning => cbpc = "idle"

UserOp(name, s) ==
    /\ lastOp' = name
    /\ lastPre' = <<playing, paused, eof>>
    /\ UNCHANGED <<cbVars, drawVars>>
    /\ s.timers <= MaxTimers
    /\ Apply(s)

PlayOps == {"play", "play after click", "play after stop"}
playName ==
    CASE lastOp = "click" -> "play after click"
      [] lastOp = "stop" -> "play after stop"
      [] OTHER -> "play"
PlayButton == UserOp(playName, play(Cur))
StopButton == StopsQuiescent /\ UserOp("stop", stop(Cur))
PauseButton == StopsQuiescent /\ UserOp("pause", pause(Cur))
SpaceKey == StopsQuiescent /\ UserOp("space", spaceKey(Cur))
HomeKey == UserOp("home", homeKey(Cur))
EndKey == UserOp("end", endKey(Cur))
mouseXs == {x \in 0..(viewW - 1) : x % mouseStride = 0}
Push == \E mouseX \in mouseXs : UserOp("click", push(Cur, mouseX))
MouseWheel ==
    \E zoomIn \in BOOLEAN :
        /\ mouseWheel(Cur, zoomIn).zoomLevel[2] <= zoomFit[2] * MaxZoomDen
        /\ UserOp("wheel", mouseWheel(Cur, zoomIn))
ScrollbarDrag ==
    \E v \in 0..scrollbarMaximum(Cur) :
        UserOp("scroll", setScrollOffset(Cur, v))

TimerTick ==
    /\ timers > 0
    /\ UNCHANGED <<cbVars, histVars, drawVars>>
    /\ Apply(update_cursor_timer(Cur))

\* ---- audio_data_callback, on the audio thread ----
CbBegin ==
    \E frameCount \in 1..MaxFrames :
        /\ devRunning
        /\ cbpc = "idle"
        /\ cbRemaining' = loaded.totalSamples - playbackSampleIndex
        /\ cbFramesToCopy' =
               Min(frameCount, loaded.totalSamples - playbackSampleIndex)
        /\ cbpc' = "eofcheck"
        /\ UNCHANGED <<uiVars, cbI, cbIdx, histVars, drawVars>>

CbEofCheck ==
    /\ cbpc = "eofcheck"
    /\ eof' = IF cbRemaining = 0 /\ ~eof THEN TRUE ELSE eof
    /\ cbpc' = "copy"
    /\ cbI' = 0
    /\ cbRemaining' = 0
    /\ UNCHANGED <<loaded, playing, paused, playbackSample, movedCursorSample,
                   scrollOffset, zoomLevel, playbackSampleIndex, devRunning,
                   timers, cbFramesToCopy, cbIdx, histVars, drawVars>>

CbCopy ==
    /\ cbpc = "copy"
    /\ cbI < cbFramesToCopy
    /\ cbIdx' = playbackSampleIndex
    /\ playbackSampleIndex' = playbackSampleIndex + 1
    /\ cbI' = cbI + 1
    /\ UNCHANGED <<loaded, playing, paused, playbackSample, movedCursorSample,
                   scrollOffset, zoomLevel, eof, devRunning, timers, cbpc,
                   cbFramesToCopy, cbRemaining, histVars, drawVars>>

\* the silence loop, which writes the frames from framesToCopy to frameCount
\* of the output buffer only, and the return
CbSilence ==
    /\ cbpc = "copy"
    /\ cbI >= cbFramesToCopy
    /\ cbpc' = "idle"
    /\ cbFramesToCopy' = 0
    /\ cbRemaining' = 0
    /\ cbI' = 0
    /\ cbIdx' = 0
    /\ UNCHANGED <<uiVars, histVars, drawVars>>

CallbackStep == CbBegin \/ CbEofCheck \/ CbCopy \/ CbSilence

Next ==
    \/ PlayButton
    \/ StopButton
    \/ PauseButton
    \/ SpaceKey
    \/ HomeKey
    \/ EndKey
    \/ Push
    \/ MouseWheel
    \/ ScrollbarDrag
    \/ TimerTick
    \/ CbBegin
    \/ CbEofCheck
    \/ CbCopy
    \/ CbSilence

Spec == Init /\ [][Next]_vars

\* ---- the view alone: main() up to Fl::run() for each file and width, and
\* then the handlers that need no playback ----
InitView ==
    /\ loaded \in {setStereoSamples(n, w) :
                      n \in 1..MaxViewSamples, w \in {viewW, WideW}}
    /\ playing = FALSE
    /\ paused = FALSE
    /\ playbackSample = -1
    /\ movedCursorSample = 0
    /\ scrollOffset = 0
    /\ zoomLevel = loaded.zoomFit
    /\ playbackSampleIndex = 0
    /\ eof = FALSE
    /\ devRunning = FALSE
    /\ timers = 0
    /\ cbpc = "idle"
    /\ cbFramesToCopy = 0
    /\ cbRemaining = 0
    /\ cbI = 0
    /\ cbIdx = 0
    /\ lastOp = "none"
    /\ lastPre = <<FALSE, FALSE, FALSE>>
    /\ drawn = <<>>

ViewWheel == \E zoomIn \in BOOLEAN : UserOp("wheel", mouseWheel(Cur, zoomIn))

NextView ==
    \/ ViewWheel
    \/ ScrollbarDrag
    \/ HomeKey
    \/ EndKey

SpecView == InitView /\ [][NextView]_vars

\* ---- playback of a file longer than the view, at any zoom level ----
\* the state play() leaves on a fresh start, after the wheel chose the zoom
PlayZooms ==
    {z \in {Rat(a, PlayZoomDen) : a \in 1..(PlayZoomDen * zoomMaxDefault)} :
        /\ RLe(setStereoSamples(PlaySamples, PlayW).zoomMin, z)
        /\ RLe(z, setStereoSamples(PlaySamples, PlayW).zoomMax)}

InitPlay ==
    /\ loaded = setStereoSamples(PlaySamples, PlayW)
    /\ zoomLevel \in PlayZooms
    /\ playing = TRUE
    /\ paused = FALSE
    /\ playbackSample = 0
    /\ movedCursorSample = 0
    /\ scrollOffset = 0
    /\ playbackSampleIndex = 0
    /\ eof = FALSE
    /\ devRunning = TRUE
    /\ timers = 1
    /\ cbpc = "idle"
    /\ cbFramesToCopy = 0
    /\ cbRemaining = 0
    /\ cbI = 0
    /\ cbIdx = 0
    /\ lastOp = "play"
    /\ lastPre = <<FALSE, FALSE, FALSE>>
    /\ drawn = <<>>

NextPlay ==
    \/ TimerTick
    \/ ScrollbarDrag
    \/ CbBegin
    \/ CbEofCheck
    \/ CbCopy
    \/ CbSilence

SpecPlay == InitPlay /\ [][NextPlay]_vars

\* ---- setStereoSamples on a newly built view ----
\* the view as its constructor leaves it, w pixels wide, no samples yet
InitLoad ==
    /\ loaded \in {setStereoSamples(0, w) : w \in 1..MaxLoadW}
    /\ playing = FALSE
    /\ paused = FALSE
    /\ playbackSample = -1
    /\ movedCursorSample = 0
    /\ scrollOffset = 0
    /\ zoomLevel = <<1, 1>>
    /\ playbackSampleIndex = 0
    /\ eof = FALSE
    /\ devRunning = FALSE
    /\ timers = 0
    /\ cbpc = "idle"
    /\ cbFramesToCopy = 0
    /\ cbRemaining = 0
    /\ cbI = 0
    /\ cbIdx = 0
    /\ lastOp = "none"
    /\ lastPre = <<FALSE, FALSE, FALSE>>
    /\ drawn = <<>>

\* waveform->setStereoSamples(left, right) with n frames
LoadFile ==
    \E n \in 0..MaxLoadSamples :
        /\ lastOp = "none"
        /\ UserOp("load",
                  updateScrollbar(
                      [Cur EXCEPT !.ld = setStereoSamples(n, loaded.viewW),
                                  !.zoomLevel =
                                      setStereoSamples(n, loaded.viewW).zoomFit,
                                  !.scrollOffset = 0]))

NextLoad == LoadFile

SpecLoad == InitLoad /\ [][NextLoad]_vars

\* ---- clicks on every pixel of the view ----
\* a file of 1..MaxSeekSamples frames, shown at the zoom level of the load
\* or at a limit the wheel stops at, and scrolled anywhere by the scrollbar
InitSeek ==
    /\ loaded \in {setStereoSamples(n, SeekW) : n \in 1..MaxSeekSamples}
    /\ zoomLevel \in {loaded.zoomMin, loaded.zoomFit, loaded.zoomMax}
    /\ scrollOffset \in
           0..scrollbarMaximum([ld |-> loaded, zoomLevel |-> zoomLevel])
    /\ playing = FALSE
    /\ paused = FALSE
    /\ playbackSample = -1
    /\ movedCursorSample = 0
    /\ playbackSampleIndex = 0
    /\ eof = FALSE
    /\ devRunning = FALSE
    /\ timers = 0
    /\ cbpc = "idle"
    /\ cbFramesToCopy = 0
    /\ cbRemaining = 0
    /\ cbI = 0
    /\ cbIdx = 0
    /\ lastOp = "none"
    /\ lastPre = <<FALSE, FALSE, FALSE>>
    /\ drawn = <<>>

\* case FL_PUSH at any pixel of the widget
SeekClick ==
    \E mouseX \in 0..(loaded.viewW - 1) : UserOp("click", push(Cur, mouseX))

NextSeek == SeekClick

SpecSeek == InitSeek /\ [][NextSeek]_vars

\* ---- the cursor put back to the anchor, in a file longer than the view ----
ResetZooms ==
    {z \in {Rat(a, ResetZoomDen) : a \in 1..(ResetZoomDen * zoomMaxDefault)} :
        /\ RLe(setStereoSamples(ResetSamples, ResetW).zoomMin, z)
        /\ RLe(z, setStereoSamples(ResetSamples, ResetW).zoomMax)}

\* the state after the load and after the wheel chose the zoom
InitReset ==
    /\ loaded = setStereoSamples(ResetSamples, ResetW)
    /\ zoomLevel \in ResetZooms
    /\ playing = FALSE
    /\ paused = FALSE
    /\ playbackSample = -1
    /\ movedCursorSample = 0
    /\ scrollOffset = 0
    /\ playbackSampleIndex = 0
    /\ eof = FALSE
    /\ devRunning = FALSE
    /\ timers = 0
    /\ cbpc = "idle"
    /\ cbFramesToCopy = 0
    /\ cbRemaining = 0
    /\ cbI = 0
    /\ cbIdx = 0
    /\ lastOp = "none"
    /\ lastPre = <<FALSE, FALSE, FALSE>>
    /\ drawn = <<>>

NextReset ==
    \/ SeekClick
    \/ HomeKey
    \/ EndKey
    \/ PlayButton
    \/ StopButton

SpecReset == InitReset /\ [][NextReset]_vars

\* ---- the program on a file with no frames ----
InitEmpty ==
    /\ loaded = setStereoSamples(0, viewW)
    /\ playing = FALSE
    /\ paused = FALSE
    /\ playbackSample = -1
    /\ movedCursorSample = 0
    /\ scrollOffset = 0
    /\ zoomLevel = <<1, 1>>
    /\ playbackSampleIndex = 0
    /\ eof = FALSE
    /\ devRunning = FALSE
    /\ timers = 0
    /\ cbpc = "idle"
    /\ cbFramesToCopy = 0
    /\ cbRemaining = 0
    /\ cbI = 0
    /\ cbIdx = 0
    /\ lastOp = "none"
    /\ lastPre = <<FALSE, FALSE, FALSE>>
    /\ drawn = <<>>

\* case FL_PUSH on the empty buffer: std::clamp(sample, 0, -1) has hi < lo,
\* which is undefined; the call yields one of its bounds
PushEmpty ==
    \E sample \in {-1, 0} :
        UserOp("click",
               [setPlaybackSample(Cur, sample) EXCEPT
                    !.movedCursorSample = sample,
                    !.playbackSampleIndex = sample])

NextEmpty ==
    \/ PlayButton
    \/ StopButton
    \/ PauseButton
    \/ SpaceKey
    \/ HomeKey
    \/ EndKey
    \/ PushEmpty
    \/ TimerTick
    \/ CbBegin
    \/ CbEofCheck
    \/ CbCopy
    \/ CbSilence

SpecEmpty == InitEmpty /\ [][NextEmpty]_vars

\* ---- draw() of a zoomed-out view ----
\* amplitudes of the file drawn: beyond full scale on both sides, at the
\* noise threshold and just above it
DrawAmplitudes == {-1500, 5, 6, 1500}

InitDraw ==
    /\ loaded \in {[setStereoSamples(DrawSamples, DrawW) EXCEPT !.samples = c] :
                      c \in [1..DrawSamples -> DrawAmplitudes]}
    /\ zoomLevel \in {<<1, k>> : k \in (envelopeSpp + 1)..DrawMaxSpp}
    /\ playing = FALSE
    /\ paused = FALSE
    /\ playbackSample = -1
    /\ movedCursorSample = 0
    /\ scrollOffset = 0
    /\ playbackSampleIndex = 0
    /\ eof = FALSE
    /\ devRunning = FALSE
    /\ timers = 0
    /\ cbpc = "idle"
    /\ cbFramesToCopy = 0
    /\ cbRemaining = 0
    /\ cbI = 0
    /\ cbIdx = 0
    /\ lastOp = "wheel"
    /\ lastPre = <<FALSE, FALSE, FALSE>>
    /\ drawn = <<>>

\* draw() reaching column x of the envelope loop
DrawEnvelope ==
    \E x \in 0..(loaded.viewW - 1) :
        /\ loaded.totalSamples > 0
        /\ envelopeMode(Cur)
        /\ drawn' = <<envelopeColumn(Cur, x)>>
        /\ UNCHANGED <<uiVars, cbVars, histVars>>

NextDraw == DrawEnvelope

SpecDraw == InitDraw /\ [][NextDraw]_vars

\* ---- playback left to itself ----
\* the last input event has been handled while playing: from here on Fl::run()
\* dispatches timeouts only
Quiet ==
    /\ playing
    /\ ~paused
    /\ lastOp # "quiet"
    /\ UserOp("quiet", Cur)

NextQuiet ==
    \/ lastOp # "quiet" /\ PlayButton
    \/ lastOp # "quiet" /\ StopButton
    \/ lastOp # "quiet" /\ PauseButton
    \/ lastOp # "quiet" /\ Push
    \/ Quiet
    \/ TimerTick
    \/ CbBegin
    \/ CbEofCheck
    \/ CbCopy
    \/ CbSilence

\* FLTK fires a pending timeout: weak fairness of TimerTick, WF_vars(TimerTick),
\* with ENABLED <<TimerTick>>_vars written out
TickFair ==
    \/ []<>(~(timers > 0 /\ update_cursor_timer(Cur) # Cur))
    \/ []<><<TimerTick>>_vars

\* the device invokes the callback again and again while it runs, and an
\* invocation runs to its return
SpecQuiet ==
    /\ Init
    /\ [][NextQuiet]_vars
    /\ WF_vars(CallbackStep)
    /\ TickFair

TypeOK ==
    /\ playing \in BOOLEAN
    /\ paused \in BOOLEAN
    /\ eof \in BOOLEAN
    /\ devRunning \in BOOLEAN
    /\ timers \in 0..MaxTimers
    /\ cbpc \in {"idle", "eofcheck", "copy"}

\* ---- transport states ----
Stopped == ~playing /\ ~paused
Playing == playing /\ ~paused
Paused == paused /\ ~playing
\* the register reached totalSamples while playing and the callback has
\* raised the end-of-stream flag
NaturalEnd == playing /\ ~paused /\ eof /\ playbackSampleIndex = totalSamples
\* nothing was played and no seek has moved the anchor
Fresh == Stopped /\ playbackSample = -1 /\ movedCursorSample = 0 /\ ~eof

\* C1: exactly one of Stopped, Playing, Paused holds in every reachable
\* state; the flags playing and paused are never both true.
ExactlyOneTransportState ==
    /\ ~(playing /\ paused)
    /\ Cardinality({b \in {<<1, Stopped>>, <<2, Playing>>, <<3, Paused>>} : b[2]}) = 1

\* C2: the fill callback reads the sample buffer only at an index in
\* [0, totalSamples) and never advances playbackSampleIndex beyond
\* totalSamples, whatever the UI thread writes to the register meanwhile.
CallbackStaysInBuffer ==
    /\ (cbpc = "copy" /\ cbI > 0) => (0 <= cbIdx /\ cbIdx < totalSamples)
    /\ playbackSampleIndex <= totalSamples

\* C3: a click seek performed while stopped sets movedCursorSample to the
\* sample sought, and a play() that follows it leaves playbackSampleIndex at
\* that sample with the stream started.
RoundTripSeek ==
    [][/\ \A mouseX \in mouseXs :
            (Stopped /\ UserOp("click", push(Cur, mouseX)))
                => movedCursorSample' = seekSample(Cur, mouseX)
       /\ (lastOp = "click" /\ Stopped /\ PlayButton)
            => /\ playbackSampleIndex' = movedCursorSample
               /\ movedCursorSample' = movedCursorSample
               /\ devRunning'
               /\ cbpc' = "idle"]_vars

RoundTripSeekWitness ==
    /\ lastOp = "play after click"
    /\ lastPre = <<FALSE, FALSE, FALSE>>
    /\ drawn = <<>>
    /\ movedCursorSample = totalSamples - 2
    /\ playbackSampleIndex = movedCursorSample
    /\ devRunning
    /\ cbpc = "idle"

\* C4: a timer tick reschedules itself exactly when the sample it read is
\* below totalSamples and playing is true; otherwise its timeout is gone.
TickReschedulesOnlyWhilePlaying ==
    [][TimerTick =>
        /\ (timers' = timers) <=> (playbackSampleIndex < totalSamples /\ playing)
        /\ (timers' # timers) => timers' = timers - 1]_vars

TickStoppedAtEndWitness ==
    /\ playing
    /\ timers = 0
    /\ playbackSample = totalSamples
    /\ playbackSampleIndex = totalSamples

\* C5: after natural end-of-stream the next transport action acts on the
\* transport state, the stream and the timer as it does from Stopped:
\* play and space start playback, pause changes nothing.
EndOfStreamActsAsStopped ==
    [][NaturalEnd =>
        /\ PlayButton => (Playing' /\ devRunning' /\ timers' = timers + 1)
        /\ SpaceKey => (Playing' /\ devRunning' /\ timers' = timers + 1)
        /\ PauseButton => (Stopped' /\ ~devRunning' /\ timers' = timers)]_vars

\* C6: a step of the audio callback changes no variable of the UI thread
\* other than playbackSampleIndex.
OnlyRegisterShared ==
    [][CallbackStep =>
        UNCHANGED <<playing, paused, playbackSample, movedCursorSample,
                    scrollOffset, zoomLevel, eof, devRunning, timers>>]_vars

\* C7: play() in the Stopped state reached by stop() ends in Playing with
\* playbackSampleIndex and playbackSample both equal to movedCursorSample,
\* the stream started and one more timer tick scheduled.
PlayAfterStopStartsAtAnchor ==
    [][(lastOp = "stop" /\ Stopped /\ PlayButton) =>
        /\ Playing'
        /\ playbackSampleIndex' = movedCursorSample'
        /\ playbackSample' = movedCursorSample'
        /\ devRunning'
        /\ timers' = timers + 1]_vars

\* C8 as stated: play() on a fresh start or after natural end-of-stream
\* leaves playbackSampleIndex at 0.
PlayFreshOrAfterEndStartsAtZero ==
    [][((Fresh \/ NaturalEnd) /\ PlayButton) => playbackSampleIndex' = 0]_vars

\* C8 amended: play() on a fresh start leaves playbackSampleIndex at 0;
\* play() after natural end-of-stream leaves it at movedCursorSample.
PlayFreshOrAfterEndStartsAtAnchor ==
    [][((Fresh \/ NaturalEnd) /\ PlayButton) =>
        /\ playbackSampleIndex' = movedCursorSample
        /\ movedCursorSample' = movedCursorSample
        /\ Fresh => playbackSampleIndex' = 0
        /\ Playing' /\ devRunning']_vars

PlayAfterEndWitness ==
    /\ lastOp \in PlayOps
    /\ lastPre = <<TRUE, FALSE, TRUE>>
    /\ playing
    /\ ~eof
    /\ movedCursorSample > 0
    /\ playbackSampleIndex = movedCursorSample
    /\ playbackSample = totalSamples

\* C9: play() while already playing with the end-of-stream flag clear sets
\* playbackSampleIndex to movedCursorSample, stays in the same transport
\* state with the stream running and schedules no timer tick.
PlayAgainResetsToAnchor ==
    [][(playing /\ ~eof /\ PlayButton) =>
        /\ playbackSampleIndex' = movedCursorSample
        /\ UNCHANGED <<playing, paused, movedCursorSample, playbackSample,
                       eof, timers>>
        /\ devRunning /\ devRunning']_vars

PlayAgainWitness ==
    /\ lastOp \in PlayOps
    /\ lastPre = <<TRUE, FALSE, FALSE>>
    /\ Playing
    /\ devRunning
    /\ movedCursorSample > 0
    /\ playbackSampleIndex = movedCursorSample
    /\ playbackSample > movedCursorSample

\* C10: pause() while playing clears playing, sets paused, stops the stream
\* and leaves playbackSample, movedCursorSample and playbackSampleIndex
\* unchanged; pause() while stopped changes nothing.
PauseEffect ==
    [][PauseButton =>
        /\ playing =>
            /\ ~playing' /\ paused' /\ ~devRunning'
            /\ UNCHANGED <<playbackSample, movedCursorSample,
                           playbackSampleIndex>>
        /\ Stopped => UNCHANGED uiVars]_vars

PauseWitness ==
    /\ lastOp = "pause"
    /\ lastPre = <<TRUE, FALSE, FALSE>>
    /\ Paused
    /\ ~devRunning
    /\ playbackSampleIndex > playbackSample
    /\ playbackSample > 0

\* C11: pause() while paused ends in Playing with playbackSampleIndex equal
\* to the playbackSample of that moment, the stream started and one more
\* timer tick scheduled.
ResumeFromPause ==
    [][(Paused /\ PauseButton) =>
        /\ Playing'
        /\ playbackSampleIndex' = playbackSample
        /\ playbackSample' = playbackSample
        /\ devRunning'
        /\ timers' = timers + 1]_vars

ResumeFromPauseWitness ==
    /\ lastOp = "pause"
    /\ lastPre = <<FALSE, TRUE, FALSE>>
    /\ Playing
    /\ devRunning
    /\ timers > 0
    /\ playbackSample > 0
    /\ playbackSample # movedCursorSample
    /\ playbackSampleIndex = playbackSample

\* C12: stop() while playing or paused ends in Stopped with the stream not
\* running and playbackSampleIndex equal to movedCursorSample.
StopEndsStopped ==
    [][((playing \/ paused) /\ StopButton) =>
        /\ Stopped'
        /\ ~devRunning'
        /\ movedCursorSample' = movedCursorSample
        /\ playbackSampleIndex' = movedCursorSample]_vars

StopEndsStoppedWitness ==
    /\ lastOp = "stop"
    /\ lastPre[1]
    /\ Stopped
    /\ ~devRunning
    /\ playbackSample > movedCursorSample
    /\ playbackSampleIndex = movedCursorSample

\* C13: Home and End act only when the transport is Stopped: while playing
\* or paused they leave movedCursorSample, playbackSampleIndex and
\* scrollOffset unchanged; while stopped they set movedCursorSample to 0
\* (Home) or totalSamples - 1 (End) and playbackSampleIndex to the same.
HomeEndOnlyWhenStopped ==
    [][/\ ((HomeKey \/ EndKey) /\ ~Stopped) =>
            UNCHANGED <<movedCursorSample, playbackSampleIndex, scrollOffset>>
       /\ (HomeKey /\ Stopped) =>
            (movedCursorSample' = 0 /\ playbackSampleIndex' = 0)
       /\ (EndKey /\ Stopped) =>
            /\ movedCursorSample' = totalSamples - 1
            /\ playbackSampleIndex' = totalSamples - 1]_vars

\* C14: while playing is true only the Cursor Sync Loop tick changes
\* playbackSample; no input handler and no transport action does.
OnlyTickWritesCursorWhilePlaying ==
    [][(playing /\ playbackSample' # playbackSample) => TimerTick]_vars

\* C14 (amended): while playing is true playbackSample is changed only by
\* the tick, by a click on the waveform (to the clicked sample), and by the
\* space key pressed with the end-of-stream flag or paused set, which stops
\* and plays again (to 0).
CursorWritersWhilePlaying ==
    [][(playing /\ playbackSample' # playbackSample) =>
        \/ TimerTick /\ playbackSample' = playbackSampleIndex
        \/ Push /\ playbackSample' = movedCursorSample'
        \/ SpaceKey /\ (eof \/ paused) /\ playbackSample' = 0]_vars

CursorWritersWitness ==
    /\ lastOp = "click"
    /\ lastPre[1]
    /\ playing
    /\ timers > 0
    /\ playbackSample = movedCursorSample
    /\ playbackSample # playbackSampleIndex

\* C15: the body of a Cursor Sync Loop tick runs only in states where
\* playing is true, whatever the order of timer firings, pause() and stop().
TickOnlyWhilePlaying ==
    [][TimerTick => playing]_vars

\* C16: neither a step of the audio callback nor a tick changes playing,
\* paused or movedCursorSample; at the end of the data the transport stays
\* Playing.
NoSpontaneousTransition ==
    [][(CallbackStep \/ TimerTick) =>
        UNCHANGED <<playing, paused, movedCursorSample>>]_vars

NoSpontaneousTransitionWitness ==
    /\ NaturalEnd
    /\ lastOp \in PlayOps
    /\ cbpc = "idle"
    /\ timers = 0
    /\ playbackSample = totalSamples

\* C17: the fill callback raises the end-of-stream flag in the invocation
\* that crosses the end of the data: an invocation that consumed the last
\* frame returns with the flag raised.
EofRaisedWhenBoundaryCrossed ==
    [][(/\ CbSilence
        /\ cbI > 0
        /\ cbIdx = totalSamples - 1
        /\ playbackSampleIndex = totalSamples) => eof]_vars

\* C18: after every wheel step on a loaded buffer
\* zoomMin <= zoomLevel <= zoomMax.
ZoomStaysClamped ==
    [][ViewWheel =>
        /\ RLe(loaded.zoomMin, zoomLevel')
        /\ RLe(zoomLevel', loaded.zoomMax)]_vars

ZoomClampedWitness ==
    /\ lastOp = "wheel"
    /\ zoomLevel = loaded.zoomMin
    /\ zoomLevel # loaded.zoomFit
    /\ scrollOffset = 0

\* C19: right after setStereoSamples on a non-empty buffer, for every length
\* and every width, zoomLevel = zoomFit = viewW / totalSamples,
\* zoomMin = zoomFit / 100, scrollOffset = 0 and
\* zoomMin <= zoomLevel <= zoomMax.
LoadEstablishesZoomInvariant ==
    lastOp = "none" =>
        /\ zoomLevel = loaded.zoomFit
        /\ loaded.zoomFit = Rat(loaded.viewW, loaded.totalSamples)
        /\ loaded.zoomMin = RMul(loaded.zoomFit, <<1, 100>>)
        /\ scrollOffset = 0
        /\ RLe(loaded.zoomMin, zoomLevel)
        /\ RLe(zoomLevel, loaded.zoomMax)

\* C20: in every state of a loaded buffer
\* 0 <= scrollOffset <= max(0, totalSamples - floor(viewW / zoomLevel)),
\* whichever of the scrollbar, the tick, resetCursor and the wheel wrote
\* scrollOffset or zoomLevel last; and setScrollOffset(900) on 1000 samples
\* at zoom 2 in a 500 pixel view yields 750.
ScrollStaysClamped ==
    /\ 0 <= scrollOffset
    /\ scrollOffset <=
           Max(0, loaded.totalSamples
                  - IntCast(loaded.viewW * zoomLevel[2], zoomLevel[1]))
    /\ setScrollOffset([Cur EXCEPT !.ld = setStereoSamples(1000, 500),
                                   !.zoomLevel = <<2, 1>>],
                       900).scrollOffset = 750

ScrollClampedWitness ==
    /\ lastOp = "end"
    /\ movedCursorSample = totalSamples - 1
    /\ playbackSampleIndex = movedCursorSample
    /\ scrollOffset > 0
    /\ scrollOffset < movedCursorSample
    /\ scrollOffset = scrollbarMaximum(Cur)

\* C21: a left click at pixel x on a non-empty buffer sets movedCursorSample,
\* playbackSample and playbackSampleIndex to
\* clamp(scrollOffset + floor(x / zoomLevel), 0, totalSamples - 1), so a click
\* beyond the last sample is clamped; x = 100 with scrollOffset 50 and zoom 2
\* gives 100.
ClickSeeksClampedSample ==
    [][/\ \A mouseX \in 0..(loaded.viewW - 1) :
            UserOp("click", push(Cur, mouseX)) =>
                LET target == Clamp(scrollOffset
                                      + (mouseX * zoomLevel[2]) \div zoomLevel[1],
                                    0, loaded.totalSamples - 1)
                IN /\ movedCursorSample' = target
                   /\ playbackSample' = target
                   /\ playbackSampleIndex' = target
       /\ SeekClick => movedCursorSample' \in 0..(loaded.totalSamples - 1)
       /\ LET r == push([Cur EXCEPT !.ld.totalSamples = 1000,
                                    !.ld.viewW = 500,
                                    !.zoomLevel = <<2, 1>>,
                                    !.scrollOffset = 50], 100)
          IN /\ r.movedCursorSample = 100
             /\ r.playbackSample = 100
             /\ r.playbackSampleIndex = 100]_vars

ClickClampedWitness ==
    /\ lastOp = "click"
    /\ movedCursorSample = loaded.totalSamples - 1
    /\ playbackSample = movedCursorSample
    /\ playbackSampleIndex = movedCursorSample
    /\ scrollOffset > 0
    /\ \E mouseX \in 0..(loaded.viewW - 1) :
            seekSample_unclamped(Cur, mouseX) >= loaded.totalSamples

\* C22: a tick that reads sample scrolls exactly when the cursor's pixel
\* position (sample - scrollOffset) * zoomLevel is greater than viewW - 30,
\* to clamp(sample - floor((viewW - 30) / zoomLevel), 0, maxScrollOffset);
\* otherwise it leaves scrollOffset unchanged; after a tick with
\* sample < totalSamples the cursor is not right of the right edge.
AutoScrollOnExactPosition ==
    [][TimerTick =>
        LET sample == playbackSampleIndex
            maxScrollOffset ==
                Max(0, loaded.totalSamples
                       - (loaded.viewW * zoomLevel[2]) \div zoomLevel[1])
        IN /\ IF (sample - scrollOffset) * zoomLevel[1]
                     > (loaded.viewW - margin) * zoomLevel[2]
              THEN scrollOffset' =
                       Clamp(sample - ((loaded.viewW - margin) * zoomLevel[2])
                                          \div zoomLevel[1],
                             0, maxScrollOffset)
              ELSE scrollOffset' = scrollOffset
           /\ sample < loaded.totalSamples =>
                  (sample - scrollOffset') * zoomLevel[1]
                      <= loaded.viewW * zoomLevel[2]]_vars

\* C22 (amended): the same with the cursor's position truncated to a whole
\* pixel, int((sample - scrollOffset) * zoomLevel), before it is compared
\* with viewW - 30.
AutoScrollOnWholePixel ==
    [][TimerTick =>
        LET sample == playbackSampleIndex
            cursorX == IntCast((sample - scrollOffset) * zoomLevel[1],
                               zoomLevel[2])
            maxScrollOffset ==
                Max(0, loaded.totalSamples
                       - (loaded.viewW * zoomLevel[2]) \div zoomLevel[1])
        IN /\ IF cursorX > loaded.viewW - margin
              THEN scrollOffset' =
                       Clamp(sample - ((loaded.viewW - margin) * zoomLevel[2])
                                          \div zoomLevel[1],
                             0, maxScrollOffset)
              ELSE scrollOffset' = scrollOffset
           /\ sample < loaded.totalSamples =>
                  (sample - scrollOffset') * zoomLevel[1]
                      <= loaded.viewW * zoomLevel[2]]_vars

AutoScrollWitness ==
    /\ lastOp = "play"
    /\ playing
    /\ playbackSample < loaded.totalSamples
    /\ scrollOffset > 0
    /\ scrollOffset < scrollbarMaximum(Cur)
    /\ scrollOffset = playbackSample
                        - ((loaded.viewW - margin) * zoomLevel[2])
                              \div zoomLevel[1]

\* C23: right after setStereoSamples on a non-empty buffer whose length and
\* the view's width divide one another, zoomLevel = viewW / totalSamples,
\* the visible sample count is totalSamples and maxScrollOffset = 0; for
\* 1000 samples in 500 pixels: zoom 1/2, 1000 visible, maxScrollOffset 0.
FitToScreen ==
    /\ (/\ lastOp = "load"
        /\ loaded.totalSamples > 0
        /\ \/ loaded.totalSamples % loaded.viewW = 0
           \/ loaded.viewW % loaded.totalSamples = 0)
       => /\ zoomLevel = Rat(loaded.viewW, loaded.totalSamples)
          /\ visibleSamplesCount(Cur) = loaded.totalSamples
          /\ CeilCast(loaded.viewW * zoomLevel[2], zoomLevel[1])
                 = loaded.totalSamples
          /\ scrollbarMaximum(Cur) = 0
          /\ scrollOffset = 0
    /\ LET a == [Cur EXCEPT !.ld = setStereoSamples(1000, 500),
                            !.zoomLevel = setStereoSamples(1000, 500).zoomFit]
       IN /\ a.zoomLevel = <<1, 2>>
          /\ visibleSamplesCount(a) = 1000
          /\ scrollbarMaximum(a) = 0

FitToScreenWitness ==
    /\ lastOp = "load"
    /\ loaded.viewW > 1
    /\ loaded.totalSamples = 2 * loaded.viewW
    /\ zoomLevel = <<1, 2>>
    /\ visibleSamplesCount(Cur) = loaded.totalSamples

\* C24: in every view state the visible sample count equals
\* ceil(viewW / zoomLevel), also when zoomed out beyond fit-to-screen, and
\* whenever scrollOffset = maxScrollOffset,
\* scrollOffset + visible sample count >= totalSamples.
VisibleCountIsCeil ==
    /\ visibleSamplesCount(Cur)
           = CeilCast(loaded.viewW * zoomLevel[2], zoomLevel[1])
    /\ scrollOffset = scrollbarMaximum(Cur) =>
           scrollOffset + visibleSamplesCount(Cur) >= loaded.totalSamples

\* C24 (amended): the visible sample count equals
\* min(totalSamples, ceil(viewW / zoomLevel)), which is totalSamples when
\* zoomed out beyond fit-to-screen, and whenever
\* scrollOffset = maxScrollOffset,
\* scrollOffset + visible sample count >= totalSamples.
VisibleCountIsCappedCeil ==
    /\ visibleSamplesCount(Cur)
           = Min(loaded.totalSamples,
                 CeilCast(loaded.viewW * zoomLevel[2], zoomLevel[1]))
    /\ RLe(zoomLevel, loaded.zoomFit) =>
           visibleSamplesCount(Cur) = loaded.totalSamples
    /\ scrollOffset = Max(0, loaded.totalSamples
                             - (loaded.viewW * zoomLevel[2]) \div zoomLevel[1])
           => scrollOffset + visibleSamplesCount(Cur) >= loaded.totalSamples

VisibleCountWitness ==
    /\ lastOp = "wheel"
    /\ zoomLevel # loaded.zoomFit
    /\ RLe(zoomLevel, loaded.zoomFit)
    /\ loaded.totalSamples > 1
    /\ visibleSamplesCount(Cur) = loaded.totalSamples
    /\ CeilCast(loaded.viewW * zoomLevel[2], zoomLevel[1]) > loaded.totalSamples
    /\ scrollOffset = scrollbarMaximum(Cur)

\* C25: on a buffer with no frames the view stays at zoomLevel = 1 and
\* scrollOffset = 0, no input event makes movedCursorSample or
\* playbackSampleIndex negative or greater than totalSamples, and the audio
\* callback never copies a frame of the empty buffer.
EmptyBufferIsNoOp ==
    loaded.totalSamples = 0 =>
        /\ zoomLevel = <<1, 1>>
        /\ scrollOffset = 0
        /\ movedCursorSample = 0
        /\ playbackSampleIndex = 0
        /\ cbI = 0

\* C26: in envelope mode, for every pixel column and every sample content, a
\* column whose sample range holds no sample with |amplitude| > 0.005 (an
\* empty range included) emits the flat mid-line, and every other column
\* emits a min/max pair with min <= max, both within [-1, 1].
EnvelopeColumnsWellFormed ==
    drawn # <<>> =>
        LET d == drawn[1]
            first == scrollOffset + (d.x * zoomLevel[2]) \div zoomLevel[1]
            last == Min(scrollOffset
                          + ((d.x + 1) * zoomLevel[2]) \div zoomLevel[1],
                        loaded.totalSamples) - 1
            loud == \E i \in first..last :
                        \/ loaded.samples[i + 1] > 5
                        \/ loaded.samples[i + 1] < -5
        IN /\ d.flat <=> ~loud
           /\ ~d.flat => /\ d.lo <= d.hi
                         /\ -1000 <= d.lo
                         /\ d.hi <= 1000

EnvelopeWitness ==
    /\ drawn # <<>>
    /\ ~drawn[1].flat
    /\ drawn[1].x = 1
    /\ drawn[1].lo = 1000
    /\ drawn[1].hi = 1000
    /\ loaded.samples[DrawSamples] = 1500

\* C27: at most one update_cursor_timer timeout is pending in every
\* reachable state, whatever the order of play, pause, stop, space and
\* timer firings.
AtMostOneTickPending ==
    timers <= 1

\* C28: in every reachable state where playing is true, the stream is
\* running and playbackSampleIndex < totalSamples, a tick is pending.
CursorFollowsAudio ==
    (playing /\ devRunning /\ playbackSampleIndex < loaded.totalSamples)
        => timers > 0

\* C29: after every play, pause, stop and space-key action the audio stream
\* is running if and only if playing is true.
StreamRunsIffPlaying ==
    [][\/ devRunning' <=> playing'
       \/ ~(PlayButton \/ StopButton \/ PauseButton \/ SpaceKey)]_vars

StreamRunsIffPlayingWitness ==
    /\ lastOp = "space"
    /\ lastPre = <<TRUE, FALSE, TRUE>>
    /\ playing
    /\ devRunning
    /\ ~eof
    /\ timers > 0

\* C30: whenever the transport is Stopped, playbackSampleIndex equals
\* movedCursorSample and movedCursorSample is in [0, totalSamples - 1].
StoppedRegisterAtAnchor ==
    Stopped =>
        /\ playbackSampleIndex = movedCursorSample
        /\ 0 <= movedCursorSample
        /\ movedCursorSample <= loaded.totalSamples - 1

StoppedAtAnchorWitness ==
    /\ Stopped
    /\ lastOp = "stop"
    /\ lastPre[2]
    /\ cbpc = "idle"
    /\ movedCursorSample = totalSamples - 1
    /\ playbackSampleIndex = movedCursorSample
    /\ playbackSample # movedCursorSample

\* C31: from a Playing state, with no further user input and with the audio
\* callback and the timer scheduled fairly, eventually playbackSampleIndex
\* equals totalSamples, eof is true and no tick is pending.
EndOfStreamReached ==
    (lastOp = "quiet")
        ~> (/\ playbackSampleIndex = loaded.totalSamples
            /\ eof
            /\ timers = 0)

\* C32: in every reachable view state, whatever zoom, scrolling and
\* resetCursor made of scrollOffset and zoomLevel, both branches of draw read
\* the channel only at indices i with 0 <= i < size.
DrawReadsInsideBuffer ==
    \A i \in drawIndices(Cur) : 0 <= i /\ i < loaded.totalSamples

DrawReadsWitness ==
    /\ lastOp = "wheel"
    /\ envelopeMode(Cur)
    /\ loaded.totalSamples > 1
    /\ drawIndices(Cur) = 0..(loaded.totalSamples - 1)
    /\ scrollOffset + IntCast(loaded.viewW * zoomLevel[2], zoomLevel[1])
           > loaded.totalSamples

\* C33: after every stop, Home, End and play-again on a loaded buffer,
\* scrollOffset <= movedCursorSample < scrollOffset + ceil(viewW / zoomLevel)
\* and scrollOffset =
\* clamp(movedCursorSample - floor(0.1 * floor(viewW / zoomLevel)), 0,
\*       max(0, totalSamples - floor(viewW / zoomLevel))).
AnchorVisibleAfterReset ==
    [][(\/ StopButton
        \/ ~playing /\ (HomeKey \/ EndKey)
        \/ (playing \/ paused \/ eof) /\ PlayButton) =>
        LET fits == (loaded.viewW * zoomLevel'[2]) \div zoomLevel'[1]
            shown == CeilCast(loaded.viewW * zoomLevel'[2], zoomLevel'[1])
            maxScrollOffset == Max(0, loaded.totalSamples - fits)
        IN /\ scrollOffset' <= movedCursorSample'
           /\ movedCursorSample' < scrollOffset' + shown
           /\ scrollOffset' =
                  Clamp(movedCursorSample' - fits \div 10, 0, maxScrollOffset)]_vars

AnchorVisibleWitness ==
    LET fits == (loaded.viewW * zoomLevel[2]) \div zoomLevel[1]
    IN /\ lastOp = "stop"
       /\ lastPre[1]
       /\ fits >= 10
       /\ scrollOffset > 0
       /\ scrollOffset = movedCursorSample - fits \div 10
       /\ scrollOffset < loaded.totalSamples - fits
====
